---- MODULE Spec2Model ----
(***************************************************************************)
(* Token-bucket admission control backed by a Redis key.                   *)
(*                                                                         *)
(*   src/src/lib.rs   rate_limiter_middleware: one Redis connection per    *)
(*                    server instance behind a tokio Mutex, the bucket is  *)
(*                    read and written inside redis::transaction.          *)
(*   src/src/main.rs  my_middleware: one Redis connection per command,     *)
(*                    plain GET followed by plain SET.                     *)
(*                                                                         *)
(* Time is counted in ticks of 1/TicksPerHour hour.  Utc::now() is the     *)
(* wall clock: it advances (Tick) and it can be set back (StepBack).       *)
(* A request reads the clock twice: in TokenPersistence::new() (line 113    *)
(* after a failed read, line 117 after a Nil reply) and as `now` at line   *)
(* 122; these are two steps and the clock may move between them.  Store    *)
(* commands are the steps at which requests interleave; each may also      *)
(* fail in transport without reaching the server.                          *)
(*                                                                         *)
(* All requests carry the Bearer token of one client, whose bucket is      *)
(* `store`, except where a second client is named (BeginOther, `others`).  *)
(*                                                                         *)
(* The Redis side follows the server's WATCH/MULTI/EXEC rules: a           *)
(* connection that watches the key is flagged dirty when another           *)
(* connection writes the key; EXEC on a dirty connection replies Nil and   *)
(* applies nothing; every EXEC, aborted or not, and every UNWATCH drops    *)
(* the connection's watch.  redis::transaction(con, keys, f) is            *)
(* loop { WATCH keys; match f(con, pipe)? { None => continue,              *)
(*        Some(v) => { UNWATCH; return Ok(v) } } } with pipe atomic, and   *)
(* Pipeline::query sends MULTI, the queued commands, EXEC and leaves the   *)
(* queued commands in the pipeline.                                        *)
(***************************************************************************)
EXTENDS Integers, Sequences, FiniteSets, TLC

\* ---------------------------------------------------------------- bounds
NReq == 2
NServers == 2
MaxClock == 6
TicksPerHour == 2

\* ------------------------------------------------------ program constants
max_tokens == 10
refill_rate_per_hour == 1

Reqs == 1..NReq
Servers == 1..NServers
Times == 0..MaxClock

VARIABLES
    clock,      \* the wall clock read by Utc::now()
    initial,    \* the value under the bucket key before the first request
    others,     \* value under the bucket key of the other client
    store,      \* value under the bucket key: <<>> absent, <<tp>> a TokenPersistence,
                \* <<CorruptState>> a string that is no TokenPersistence
    watching,   \* per connection: the key is WATCHed
    dirty,      \* per connection: the watched key was written by another connection
    mutex,      \* per server: request holding AppState.redis_conn, 0 when free
    used,       \* number of server instances that have taken a request
    pc,         \* per request: position in the middleware
    server,     \* per request: the server instance handling it, 0 when none
    client,     \* per request: whose Bearer token it carries, 0 when none;
                \* 1 is the client whose bucket is `store`, 2 another client
    token_model_result,  \* per request: reply of the read, <<>> Nil, <<tp>> Token(tp)
    token_model,         \* per request: the state chosen at lines 115-118, <<>> before
    updated_token_model, \* per request: the state built at lines 141-144, <<>> before
    failed,     \* per request: the store commands that returned a transport error
    status      \* per request: response status, "none" while in flight, "PANIC"
                \* when the task panicked and no response is produced

vars == <<clock, initial, store, others, watching, dirty, mutex, used, pc,
          server, client, token_model_result, token_model,
          updated_token_model, failed, status>>

\* ----------------------------------------------------------- pure helpers

\* Variant of NumHours that forgets the conversion to hours.
NumHoursAsTicks(d) == d

\* chrono::Duration::num_hours: whole hours, truncated toward zero.
NumHours(d) ==
    IF d >= 0 THEN d \div TicksPerHour ELSE -((-d) \div TicksPerHour)

Min(a, b) == IF a <= b THEN a ELSE b
Max(a, b) == IF a >= b THEN a ELSE b

\* TokenPersistence::new() evaluated at time t.
TokenPersistenceNew(t) == [tokens |-> max_tokens, last_updated |-> t]

\* match token_model_result { Token(tp) => tp, _ => TokenPersistence::new() }
TokenModel(res, t) == IF res = <<>> THEN TokenPersistenceNew(t) ELSE res[1]

\* Variant of TokensAvailable without .min(max_tokens).
TokensAvailableNoCap(tm, t) ==
    tm.tokens + NumHours(t - tm.last_updated) * refill_rate_per_hour

\* (token_model.tokens + elapsed_hours * refill_rate_per_hour).min(max_tokens)
TokensAvailable(tm, t) ==
    Min(tm.tokens + NumHours(t - tm.last_updated) * refill_rate_per_hour,
        max_tokens)

\* (tokens_available - 1).max(0)
UpdatedTokens(avail) == Max(avail - 1, 0)

\* TokenPersistence { last_updated: now, tokens: updated_tokens }
UpdatedTokenModel(tm, t) ==
    [tokens |-> UpdatedTokens(TokensAvailable(tm, t)), last_updated |-> t]

\* ------------------------------------------------------------- Redis side

\* generate_bucket_key of the request that holds connection c, as the client
\* it belongs to; a connection nobody holds has last been used for client 1.
redis_key(c) == IF mutex[c] = 0 THEN 1 ELSE client[mutex[c]]

\* The value under the bucket key of client k.
Value(k) == IF k = 2 THEN others ELSE store

\* A write of a key by connection c flags every other connection that
\* watches that key.
DirtyAfterWrite(c) ==
    [d \in Servers |->
        IF d # c /\ watching[d] /\ redis_key(d) = redis_key(c)
          THEN TRUE ELSE dirty[d]]

\* A string value that serde_json::from_slice cannot read as a
\* TokenPersistence.
CorruptState == [corrupt |-> TRUE]

\* Another client of the Redis server overwrites the key with such a value;
\* like every write it flags the connections that watch the key.
Tamper ==
    /\ store # <<CorruptState>>
    /\ store' = <<CorruptState>>
    /\ dirty' = [d \in Servers |->
                    IF watching[d] /\ redis_key(d) = 1 THEN TRUE ELSE dirty[d]]
    /\ UNCHANGED others
    /\ UNCHANGED <<clock, initial, watching, mutex, used, pc, server, client,
                   token_model_result, token_model, updated_token_model,
                   failed, status>>

\* ------------------------------------------------------------------- Init

\* The store is empty or holds a state an earlier admitted request wrote.
ValidStates ==
    {[tokens |-> t, last_updated |-> 0] : t \in 0..(max_tokens - 1)}

Init ==
    /\ clock = 0
    /\ store \in {<<>>} \cup {<<s>> : s \in ValidStates}
    /\ initial = store
    /\ others = <<>>
    /\ watching = [s \in Servers |-> FALSE]
    /\ dirty = [s \in Servers |-> FALSE]
    /\ mutex = [s \in Servers |-> 0]
    /\ used = 0
    /\ pc = [r \in Reqs |-> "start"]
    /\ server = [r \in Reqs |-> 0]
    /\ client = [r \in Reqs |-> 0]
    /\ token_model_result = [r \in Reqs |-> <<>>]
    /\ token_model = [r \in Reqs |-> <<>>]
    /\ updated_token_model = [r \in Reqs |-> <<>>]
    /\ failed = [r \in Reqs |-> {}]
    /\ status = [r \in Reqs |-> "none"]

\* ------------------------------------------------------------ environment

Tick ==
    /\ clock < MaxClock
    /\ clock' = clock + 1
    /\ UNCHANGED <<initial, store, others, watching, dirty, mutex, used, pc,
                   server, client, token_model_result, token_model,
                   updated_token_model, failed, status>>

StepBack ==
    /\ \E t \in Times : t < clock /\ clock' = t
    /\ UNCHANGED <<initial, store, others, watching, dirty, mutex, used, pc,
                   server, client, token_model_result, token_model,
                   updated_token_model, failed, status>>

\* ------------------------------------- lib.rs: rate_limiter_middleware

\* Frame of a step that touches neither the clock nor the Redis server.
LocalFrame == UNCHANGED <<clock, initial, store, others, watching, dirty>>

\* Requests and server instances are interchangeable: request r arrives
\* after request r - 1, and instance s takes its first request after
\* instance s - 1 took one.
Arrived(r) == IF r = 1 THEN TRUE ELSE pc[r - 1] # "start"

\* Variant of Unauthorized that answers 401 only after WATCH went out on the
\* connection of instance 1.
UnauthorizedAfterWatch(r) ==
    /\ pc[r] = "start"
    /\ Arrived(r)
    /\ pc' = [pc EXCEPT ![r] = "done"]
    /\ status' = [status EXCEPT ![r] = "UNAUTHORIZED"]
    /\ watching' = [watching EXCEPT ![1] = TRUE]
    /\ UNCHANGED <<clock, initial, store, others, dirty, mutex, used, server,
                   client, token_model_result, token_model,
                   updated_token_model, failed>>

\* Lines 95-103: no "Bearer" header, 401 before anything else happens.
Unauthorized(r) ==
    /\ pc[r] = "start"
    /\ Arrived(r)
    /\ pc' = [pc EXCEPT ![r] = "done"]
    /\ status' = [status EXCEPT ![r] = "UNAUTHORIZED"]
    /\ LocalFrame
    /\ UNCHANGED <<mutex, used, server, client, token_model_result,
                   token_model, updated_token_model, failed>>

\* Line 96, t.to_str().unwrap(): the value of the Bearer header holds a byte
\* that is not visible ASCII; to_str() returns Err and unwrap() panics.  No
\* lock is taken, no command is sent and the request gets no response.
BearerPanic(r) ==
    /\ pc[r] = "start"
    /\ Arrived(r)
    /\ pc' = [pc EXCEPT ![r] = "done"]
    /\ status' = [status EXCEPT ![r] = "PANIC"]
    /\ LocalFrame
    /\ UNCHANGED <<mutex, used, server, client, token_model_result,
                   token_model, updated_token_model, failed>>

\* Lines 95-105: the request carries a Bearer header whose value to_str()
\* accepts and is handled by server instance s; it now waits for that
\* instance's connection.
Begin(r, s) ==
    /\ pc[r] = "start"
    /\ Arrived(r)
    /\ s <= used + 1
    /\ used' = Max(used, s)
    /\ pc' = [pc EXCEPT ![r] = "lock"]
    /\ server' = [server EXCEPT ![r] = s]
    /\ client' = [client EXCEPT ![r] = 1]
    /\ LocalFrame
    /\ UNCHANGED <<mutex, token_model_result, token_model,
                   updated_token_model, failed, status>>

\* Lines 95-105 for a request that carries the Bearer token of the other
\* client: generate_bucket_key yields that client's key.
BeginOther(r, s) ==
    /\ pc[r] = "start"
    /\ Arrived(r)
    /\ s <= used + 1
    /\ used' = Max(used, s)
    /\ pc' = [pc EXCEPT ![r] = "lock"]
    /\ server' = [server EXCEPT ![r] = s]
    /\ client' = [client EXCEPT ![r] = 2]
    /\ LocalFrame
    /\ UNCHANGED <<mutex, token_model_result, token_model,
                   updated_token_model, failed, status>>

\* Variant of Lock that does not wait for the mutex to be free.
LockNoWait(r) ==
    /\ pc[r] = "lock"
    /\ mutex' = [mutex EXCEPT ![server[r]] = r]
    /\ pc' = [pc EXCEPT ![r] = "watch"]
    /\ LocalFrame
    /\ UNCHANGED <<used, server, client, token_model_result, token_model,
                   updated_token_model, failed, status>>

\* Line 107: state.redis_conn.lock().await
Lock(r) ==
    /\ pc[r] = "lock"
    /\ mutex[server[r]] = 0
    /\ mutex' = [mutex EXCEPT ![server[r]] = r]
    /\ pc' = [pc EXCEPT ![r] = "watch"]
    /\ LocalFrame
    /\ UNCHANGED <<used, server, client, token_model_result, token_model,
                   updated_token_model, failed, status>>

\* The response is returned: the locals go out of scope and the MutexGuard
\* `conn` is dropped.
Respond(r, code) ==
    /\ pc' = [pc EXCEPT ![r] = "done"]
    /\ status' = [status EXCEPT ![r] = code]
    /\ mutex' = [mutex EXCEPT ![server[r]] = 0]
    /\ server' = [server EXCEPT ![r] = 0]
    /\ client' = [client EXCEPT ![r] = 0]
    /\ token_model_result' = [token_model_result EXCEPT ![r] = <<>>]
    /\ token_model' = [token_model EXCEPT ![r] = <<>>]
    /\ updated_token_model' = [updated_token_model EXCEPT ![r] = <<>>]
    /\ failed' = [failed EXCEPT ![r] = {}]
    /\ UNCHANGED used

\* Line 109, redis::transaction: cmd("WATCH").arg(keys).exec(con)?
Watch(r) ==
    /\ pc[r] = "watch"
    /\ watching' = [watching EXCEPT ![server[r]] = TRUE]
    /\ pc' = [pc EXCEPT ![r] = "get"]
    /\ UNCHANGED <<clock, initial, store, others, dirty, mutex, used, server,
                   client, token_model_result, token_model,
                   updated_token_model, failed, status>>

\* WATCH fails in transport: `?` returns Err, lines 156-162 answer 429.
WatchFail(r) ==
    /\ pc[r] = "watch"
    /\ Respond(r, "TOO_MANY_REQUESTS")
    /\ LocalFrame

\* Reply of EXEC for the pipeline [GET key] on connection c, as decoded by
\* from_redis_value (lines 35-49): Nil when the transaction was aborted or
\* the key is absent, Token(tp) for Array[BulkString].
from_redis_value(c) == IF dirty[c] THEN <<>> ELSE Value(redis_key(c))

\* Line 43, serde_json::from_slice(v).unwrap(): the GET of a transaction
\* that was not aborted returned a BulkString that is no TokenPersistence.
UnwrapPanics(c) == ~dirty[c] /\ Value(redis_key(c)) = <<CorruptState>>

\* Lines 110-112: pipe.get(&redis_key).query(con) sends MULTI GET EXEC.
ExecGet(r) ==
    /\ pc[r] = "get"
    /\ ~UnwrapPanics(server[r])
    /\ token_model_result' =
           [token_model_result EXCEPT ![r] = from_redis_value(server[r])]
    /\ watching' = [watching EXCEPT ![server[r]] = FALSE]
    /\ dirty' = [dirty EXCEPT ![server[r]] = FALSE]
    /\ pc' = [pc EXCEPT ![r] = "match"]
    /\ UNCHANGED <<clock, initial, store, others, mutex, used, server, client,
                   token_model, updated_token_model, failed, status>>

\* Lines 110-112 with line 43: decoding the reply of EXEC panics.  The EXEC
\* has run, so the watch is gone; the unwinding drops the MutexGuard and
\* the request gets no response.
ExecGetPanic(r) ==
    /\ pc[r] = "get"
    /\ UnwrapPanics(server[r])
    /\ watching' = [watching EXCEPT ![server[r]] = FALSE]
    /\ dirty' = [dirty EXCEPT ![server[r]] = FALSE]
    /\ Respond(r, "PANIC")
    /\ UNCHANGED <<clock, initial, store, others>>

\* Line 113: the query fails in transport, unwrap_or substitutes
\* Token(TokenPersistence::new()), built at the clock of this step, and the
\* closure goes on.
ExecGetFail(r) ==
    /\ pc[r] = "get"
    /\ token_model_result' =
           [token_model_result EXCEPT ![r] = <<TokenPersistenceNew(clock)>>]
    /\ failed' = [failed EXCEPT ![r] = @ \cup {"GET"}]
    /\ pc' = [pc EXCEPT ![r] = "match"]
    /\ LocalFrame
    /\ UNCHANGED <<mutex, used, server, client, token_model,
                   updated_token_model, status>>

\* Lines 115-118: token_model is the state of a Token reply, otherwise
\* TokenPersistence::new() read at line 117, at the clock of this step.
Match(r) ==
    /\ pc[r] = "match"
    /\ token_model' =
           [token_model EXCEPT ![r] = <<TokenModel(token_model_result[r], clock)>>]
    /\ token_model_result' = [token_model_result EXCEPT ![r] = <<>>]
    /\ pc' = [pc EXCEPT ![r] = "compute"]
    /\ LocalFrame
    /\ UNCHANGED <<mutex, used, server, client, updated_token_model, failed,
                   status>>

\* Variant of StoreOnDeny that moves last_updated of the stored bucket to
\* `now` and keeps its tokens.
StoreOnDenyTouches(r) ==
    store' = IF store = <<>> THEN store
             ELSE <<[tokens |-> store[1].tokens, last_updated |-> clock]>>

\* Variant of StoreOnDeny that persists the empty bucket at `now`.
StoreOnDenyWrites(r) ==
    store' = <<[tokens |-> 0, last_updated |-> clock]>>

\* Lines 132-137: what the rejecting branch does to the store: nothing.
StoreOnDeny(r) == store' = store

\* Variant of Deny that hands the request to the downstream handler although
\* no token is available.
DenyForwards(r) ==
    /\ pc[r] = "compute"
    /\ TokensAvailable(token_model[r][1], clock) < 1
    /\ token_model' = [token_model EXCEPT ![r] = <<>>]
    /\ pc' = [pc EXCEPT ![r] = "next"]
    /\ LocalFrame
    /\ UNCHANGED <<mutex, used, server, client, token_model_result,
                   updated_token_model, failed, status>>

\* Lines 120-137: `now` is the clock of this step; tokens_available < 1, the
\* closure returns Err, which redis::transaction propagates; lines 156-162
\* answer 429.
Deny(r) ==
    /\ pc[r] = "compute"
    /\ TokensAvailable(token_model[r][1], clock) < 1
    /\ Respond(r, "TOO_MANY_REQUESTS")
    /\ StoreOnDeny(r)
    /\ UNCHANGED <<clock, initial, others, watching, dirty>>

\* Lines 120-144: `now` is the clock of this step; tokens_available >= 1,
\* the new state is built; token_model is not used again.
Compute(r) ==
    /\ pc[r] = "compute"
    /\ TokensAvailable(token_model[r][1], clock) >= 1
    /\ updated_token_model' = [updated_token_model EXCEPT ![r] =
           <<UpdatedTokenModel(token_model[r][1], clock)>>]
    /\ token_model' = [token_model EXCEPT ![r] = <<>>]
    /\ pc' = [pc EXCEPT ![r] = "set"]
    /\ LocalFrame
    /\ UNCHANGED <<mutex, used, server, client, token_model_result, failed,
                   status>>

\* SET redis_key updated_token_model, applied by the server.
Set(r) ==
    IF client[r] = 2
      THEN others' = updated_token_model[r] /\ store' = store
      ELSE store' = updated_token_model[r] /\ others' = others

\* Lines 146-149: pipe.set(..).ignore().query(con) sends MULTI GET SET EXEC;
\* the reply, [reply of GET], is decoded and dropped.  EXEC applies the SET
\* unless the connection still holds a dirty watch.  updated_token_model
\* was moved into the pipeline.
ExecSet(r) ==
    /\ pc[r] = "set"
    /\ ~UnwrapPanics(server[r])
    /\ IF watching[server[r]] /\ dirty[server[r]]
         THEN /\ UNCHANGED <<store, others>>
              /\ dirty' = [dirty EXCEPT ![server[r]] = FALSE]
         ELSE /\ Set(r)
              /\ dirty' = [DirtyAfterWrite(server[r]) EXCEPT ![server[r]] = FALSE]
    /\ watching' = [watching EXCEPT ![server[r]] = FALSE]
    /\ updated_token_model' = [updated_token_model EXCEPT ![r] = <<>>]
    /\ pc' = [pc EXCEPT ![r] = "unwatch"]
    /\ UNCHANGED <<clock, initial, mutex, used, server, client,
                   token_model_result, token_model, failed, status>>

\* Lines 146-149 with line 43: the GET queued before the SET returned a
\* value that is no TokenPersistence; EXEC applied the SET and decoding its
\* reply panics.
ExecSetPanic(r) ==
    /\ pc[r] = "set"
    /\ UnwrapPanics(server[r])
    /\ Set(r)
    /\ dirty' = [DirtyAfterWrite(server[r]) EXCEPT ![server[r]] = FALSE]
    /\ watching' = [watching EXCEPT ![server[r]] = FALSE]
    /\ Respond(r, "PANIC")
    /\ UNCHANGED <<clock, initial>>

\* Lines 146-149: the query fails in transport; `let _ =` drops the error.
ExecSetFail(r) ==
    /\ pc[r] = "set"
    /\ failed' = [failed EXCEPT ![r] = @ \cup {"SET"}]
    /\ updated_token_model' = [updated_token_model EXCEPT ![r] = <<>>]
    /\ pc' = [pc EXCEPT ![r] = "unwatch"]
    /\ LocalFrame
    /\ UNCHANGED <<mutex, used, server, client, token_model_result,
                   token_model, status>>

\* Variant of Unwatch in which redis::transaction starts a new cycle instead
\* of returning.
UnwatchAndRetry(r) ==
    /\ pc[r] = "unwatch"
    /\ watching' = [watching EXCEPT ![server[r]] = FALSE]
    /\ dirty' = [dirty EXCEPT ![server[r]] = FALSE]
    /\ pc' = [pc EXCEPT ![r] = "watch"]
    /\ UNCHANGED <<clock, initial, store, others, mutex, used, server, client,
                   token_model_result, token_model, updated_token_model,
                   failed, status>>

\* Line 151 Ok(Some(())): redis::transaction sends UNWATCH and returns Ok;
\* line 166 hands the request to the downstream handler.
Unwatch(r) ==
    /\ pc[r] = "unwatch"
    /\ watching' = [watching EXCEPT ![server[r]] = FALSE]
    /\ dirty' = [dirty EXCEPT ![server[r]] = FALSE]
    /\ pc' = [pc EXCEPT ![r] = "next"]
    /\ UNCHANGED <<clock, initial, store, others, mutex, used, server, client,
                   token_model_result, token_model, updated_token_model,
                   failed, status>>

\* UNWATCH fails in transport: redis::transaction returns Err, 429.
UnwatchFail(r) ==
    /\ pc[r] = "unwatch"
    /\ Respond(r, "TOO_MANY_REQUESTS")
    /\ LocalFrame

\* Lines 166-169: next.run(request).await completes, its response is
\* returned and the guard is dropped.
Downstream(r) ==
    /\ pc[r] = "next"
    /\ Respond(r, "OK")
    /\ LocalFrame

Next ==
    \/ Tick
    \/ StepBack
    \/ \E r \in Reqs : Unauthorized(r)
    \/ \E r \in Reqs : BearerPanic(r)
    \/ \E r \in Reqs, s \in Servers : Begin(r, s)
    \/ \E r \in Reqs : Lock(r)
    \/ \E r \in Reqs : Watch(r)
    \/ \E r \in Reqs : WatchFail(r)
    \/ \E r \in Reqs : ExecGet(r)
    \/ \E r \in Reqs : ExecGetFail(r)
    \/ \E r \in Reqs : Match(r)
    \/ \E r \in Reqs : Deny(r)
    \/ \E r \in Reqs : Compute(r)
    \/ \E r \in Reqs : ExecSet(r)
    \/ \E r \in Reqs : ExecSetFail(r)
    \/ \E r \in Reqs : Unwatch(r)
    \/ \E r \in Reqs : UnwatchFail(r)
    \/ \E r \in Reqs : Downstream(r)

Spec == Init /\ [][Next]_vars

\* The same program with a store that answers every command.
NextReliable ==
    \/ Tick
    \/ StepBack
    \/ \E r \in Reqs : Unauthorized(r)
    \/ \E r \in Reqs : BearerPanic(r)
    \/ \E r \in Reqs, s \in Servers : Begin(r, s)
    \/ \E r \in Reqs : Lock(r)
    \/ \E r \in Reqs : Watch(r)
    \/ \E r \in Reqs : ExecGet(r)
    \/ \E r \in Reqs : Match(r)
    \/ \E r \in Reqs : Deny(r)
    \/ \E r \in Reqs : Compute(r)
    \/ \E r \in Reqs : ExecSet(r)
    \/ \E r \in Reqs : Unwatch(r)
    \/ \E r \in Reqs : Downstream(r)

SpecReliable == Init /\ [][NextReliable]_vars

\* ... and, besides, with a clock that never goes back: `clock` is then the
\* time elapsed since the initial state.
NextMono ==
    \/ Tick
    \/ \E r \in Reqs : Unauthorized(r)
    \/ \E r \in Reqs : BearerPanic(r)
    \/ \E r \in Reqs, s \in Servers : Begin(r, s)
    \/ \E r \in Reqs : Lock(r)
    \/ \E r \in Reqs : Watch(r)
    \/ \E r \in Reqs : ExecGet(r)
    \/ \E r \in Reqs : Match(r)
    \/ \E r \in Reqs : Deny(r)
    \/ \E r \in Reqs : Compute(r)
    \/ \E r \in Reqs : ExecSet(r)
    \/ \E r \in Reqs : Unwatch(r)
    \/ \E r \in Reqs : Downstream(r)

SpecMono == Init /\ [][NextMono]_vars

\* The program with a reliable store and requests of two clients.
NextClients ==
    \/ Tick
    \/ StepBack
    \/ \E r \in Reqs : Unauthorized(r)
    \/ \E r \in Reqs : BearerPanic(r)
    \/ \E r \in Reqs, s \in Servers : Begin(r, s)
    \/ \E r \in Reqs, s \in Servers : BeginOther(r, s)
    \/ \E r \in Reqs : Lock(r)
    \/ \E r \in Reqs : Watch(r)
    \/ \E r \in Reqs : ExecGet(r)
    \/ \E r \in Reqs : Match(r)
    \/ \E r \in Reqs : Deny(r)
    \/ \E r \in Reqs : Compute(r)
    \/ \E r \in Reqs : ExecSet(r)
    \/ \E r \in Reqs : Unwatch(r)
    \/ \E r \in Reqs : Downstream(r)

SpecClients == Init /\ [][NextClients]_vars

\* The program with a reliable store whose key other clients may overwrite
\* with a value that is no TokenPersistence.
NextCorrupt ==
    \/ Tick
    \/ StepBack
    \/ Tamper
    \/ \E r \in Reqs : Unauthorized(r)
    \/ \E r \in Reqs : BearerPanic(r)
    \/ \E r \in Reqs, s \in Servers : Begin(r, s)
    \/ \E r \in Reqs : Lock(r)
    \/ \E r \in Reqs : Watch(r)
    \/ \E r \in Reqs : ExecGet(r)
    \/ \E r \in Reqs : ExecGetPanic(r)
    \/ \E r \in Reqs : Match(r)
    \/ \E r \in Reqs : Deny(r)
    \/ \E r \in Reqs : Compute(r)
    \/ \E r \in Reqs : ExecSet(r)
    \/ \E r \in Reqs : ExecSetPanic(r)
    \/ \E r \in Reqs : Unwatch(r)
    \/ \E r \in Reqs : Downstream(r)

SpecCorrupt == Init /\ [][NextCorrupt]_vars

\* ---------------------------------------------- main.rs: my_middleware
\* Every command runs on a connection of its own (get_connection()), with
\* no WATCH, no MULTI and no lock; `server`, `mutex`, `watching` and `dirty`
\* are not used.

MainFrame ==
    UNCHANGED <<clock, initial, store, others, watching, dirty, mutex, used,
                server, client>>

\* The response is returned and the locals go out of scope.
MRespond(r, code) ==
    /\ pc' = [pc EXCEPT ![r] = "done"]
    /\ status' = [status EXCEPT ![r] = code]
    /\ token_model_result' = [token_model_result EXCEPT ![r] = <<>>]
    /\ token_model' = [token_model EXCEPT ![r] = <<>>]
    /\ updated_token_model' = [updated_token_model EXCEPT ![r] = <<>>]
    /\ failed' = [failed EXCEPT ![r] = {}]

\* Lines 73-81: no "Bearer" header.
MUnauthorized(r) ==
    /\ pc[r] = "start"
    /\ Arrived(r)
    /\ MRespond(r, "UNAUTHORIZED")
    /\ MainFrame

\* Line 74, t.to_str().unwrap(): the value of the Bearer header holds a byte
\* that is not visible ASCII and unwrap() panics; no connection is opened.
MBearerPanic(r) ==
    /\ pc[r] = "start"
    /\ Arrived(r)
    /\ MRespond(r, "PANIC")
    /\ MainFrame

\* Lines 73-83: the request carries a Bearer header whose value to_str()
\* accepts.
MBegin(r) ==
    /\ pc[r] = "start"
    /\ Arrived(r)
    /\ pc' = [pc EXCEPT ![r] = "get"]
    /\ MainFrame
    /\ UNCHANGED <<token_model_result, token_model, updated_token_model,
                   failed, status>>

\* Lines 85-89: GET on a fresh connection; Nil or Token(tp).
MGet(r) ==
    /\ pc[r] = "get"
    /\ store # <<CorruptState>>
    /\ token_model_result' = [token_model_result EXCEPT ![r] = store]
    /\ pc' = [pc EXCEPT ![r] = "match"]
    /\ MainFrame
    /\ UNCHANGED <<token_model, updated_token_model, failed, status>>

\* Lines 85-89 with line 40, serde_json::from_slice(v).unwrap(): the GET
\* returned a BulkString that is no TokenPersistence and decoding panics.
MGetPanic(r) ==
    /\ pc[r] = "get"
    /\ store = <<CorruptState>>
    /\ MRespond(r, "PANIC")
    /\ MainFrame

\* Lines 86-88: get_connection() fails and unwrap() panics; the task is torn
\* down before a response is produced.
MConnectPanic(r) ==
    /\ pc[r] = "get"
    /\ MRespond(r, "PANIC")
    /\ MainFrame

\* Lines 89-90: the connection is open and the GET fails, unwrap_or
\* substitutes Token(TokenPersistence::new()), built at the clock of this
\* step.
MGetFail(r) ==
    /\ pc[r] = "get"
    /\ token_model_result' =
           [token_model_result EXCEPT ![r] = <<TokenPersistenceNew(clock)>>]
    /\ failed' = [failed EXCEPT ![r] = @ \cup {"GET"}]
    /\ pc' = [pc EXCEPT ![r] = "match"]
    /\ MainFrame
    /\ UNCHANGED <<token_model, updated_token_model, status>>

\* Lines 92-95: token_model is the state of a Token reply, otherwise
\* TokenPersistence::new() read at line 94, at the clock of this step.
MMatch(r) ==
    /\ pc[r] = "match"
    /\ token_model' =
           [token_model EXCEPT ![r] = <<TokenModel(token_model_result[r], clock)>>]
    /\ token_model_result' = [token_model_result EXCEPT ![r] = <<>>]
    /\ pc' = [pc EXCEPT ![r] = "compute"]
    /\ MainFrame
    /\ UNCHANGED <<updated_token_model, failed, status>>

\* Lines 97-114: `now` is the clock of this step; tokens_available < 1, 429
\* and nothing is written.
MDeny(r) ==
    /\ pc[r] = "compute"
    /\ TokensAvailable(token_model[r][1], clock) < 1
    /\ MRespond(r, "TOO_MANY_REQUESTS")
    /\ MainFrame

\* Lines 97-121: `now` is the clock of this step; tokens_available >= 1,
\* the new state is built.
MCompute(r) ==
    /\ pc[r] = "compute"
    /\ TokensAvailable(token_model[r][1], clock) >= 1
    /\ updated_token_model' = [updated_token_model EXCEPT ![r] =
           <<UpdatedTokenModel(token_model[r][1], clock)>>]
    /\ token_model' = [token_model EXCEPT ![r] = <<>>]
    /\ pc' = [pc EXCEPT ![r] = "set"]
    /\ MainFrame
    /\ UNCHANGED <<token_model_result, failed, status>>

\* Lines 123-130: SET on a fresh connection, then the downstream handler.
MSet(r) ==
    /\ pc[r] = "set"
    /\ store' = updated_token_model[r]
    /\ updated_token_model' = [updated_token_model EXCEPT ![r] = <<>>]
    /\ pc' = [pc EXCEPT ![r] = "next"]
    /\ UNCHANGED <<clock, initial, others, watching, dirty, mutex, used,
                   server, client, token_model_result, token_model, failed,
                   status>>

\* Lines 123-128: get_connection() or the SET fails and unwrap() panics; the
\* task is torn down before a response is produced.
MSetFail(r) ==
    /\ pc[r] = "set"
    /\ MRespond(r, "PANIC")
    /\ MainFrame

\* Lines 130-132: next.run(request).await completes.
MDownstream(r) ==
    /\ pc[r] = "next"
    /\ MRespond(r, "OK")
    /\ MainFrame

NextMain ==
    \/ Tick
    \/ StepBack
    \/ Tamper
    \/ \E r \in Reqs : MUnauthorized(r)
    \/ \E r \in Reqs : MBearerPanic(r)
    \/ \E r \in Reqs : MBegin(r)
    \/ \E r \in Reqs : MGet(r)
    \/ \E r \in Reqs : MConnectPanic(r)
    \/ \E r \in Reqs : MGetPanic(r)
    \/ \E r \in Reqs : MGetFail(r)
    \/ \E r \in Reqs : MMatch(r)
    \/ \E r \in Reqs : MDeny(r)
    \/ \E r \in Reqs : MCompute(r)
    \/ \E r \in Reqs : MSet(r)
    \/ \E r \in Reqs : MSetFail(r)
    \/ \E r \in Reqs : MDownstream(r)

SpecMain == Init /\ [][NextMain]_vars

\* my_middleware with a store that answers every command and a clock that
\* never goes back.
NextMainMono ==
    \/ Tick
    \/ \E r \in Reqs : MUnauthorized(r)
    \/ \E r \in Reqs : MBearerPanic(r)
    \/ \E r \in Reqs : MBegin(r)
    \/ \E r \in Reqs : MGet(r)
    \/ \E r \in Reqs : MMatch(r)
    \/ \E r \in Reqs : MDeny(r)
    \/ \E r \in Reqs : MCompute(r)
    \/ \E r \in Reqs : MSet(r)
    \/ \E r \in Reqs : MDownstream(r)

SpecMainMono == Init /\ [][NextMainMono]_vars

\* ------------------------------------------------- vocabulary of the claims

\* The request was handed to the downstream handler.
Admitted(r) == pc[r] = "next" \/ status[r] = "OK"
AdmittedCount == Cardinality({r \in Reqs : Admitted(r)})

\* No request is in flight.
Quiescent == \A r \in Reqs : pc[r] \in {"start", "done"}

\* Tokens a bucket value stands for (an absent key is a full bucket).
TokensOf(v) == IF v = <<>> THEN max_tokens ELSE v[1].tokens

\* Whole hours elapsed since the initial state, under a clock that never
\* goes back (the initial last_updated is the initial clock).
HoursElapsed == clock \div TicksPerHour

\* C1 (as claimed): the number of admitted requests never exceeds the
\* initial token count plus the tokens refilled since, and never exceeds
\* max_tokens while no full hour has elapsed.
C1_NoDoubleSpend ==
    /\ AdmittedCount <= TokensOf(initial) + HoursElapsed * refill_rate_per_hour
    /\ (HoursElapsed = 0 => AdmittedCount <= max_tokens)

\* C2 (as claimed): no update is lost.  Once all requests have returned and
\* no refill hour has elapsed, the stored count is the initial count minus
\* one per admitted request; on a fresh key every request is admitted.
C2_NoLostUpdate ==
    (Quiescent /\ HoursElapsed = 0) =>
        /\ TokensOf(store) = TokensOf(initial) - AdmittedCount
        /\ (initial = <<>> =>
               \A r \in Reqs : status[r] # "TOO_MANY_REQUESTS")

\* C3 (as claimed): my_middleware neither double-spends nor loses a token.
\* Admitted requests never outnumber the tokens available, and when all
\* requests have returned within the hour the stored count went down by
\* one per admitted request.
C3_MainNoDoubleSpend ==
    /\ AdmittedCount <= TokensOf(initial) + HoursElapsed * refill_rate_per_hour
    /\ (Quiescent /\ HoursElapsed = 0 /\ AdmittedCount > 0) =>
           TokensOf(store) = TokensOf(initial) - AdmittedCount

\* Request r takes a step.
Steps(r) == pc'[r] # pc[r]

\* C4 (as claimed): when the EXEC of a request's transaction is rejected
\* because the watched key changed, the request goes back to WATCH for a
\* new cycle or, the retry bound exhausted, is denied.
C4_RetryOnConflict ==
    [][\A r \in Reqs :
         (/\ pc[r] \in {"get", "set"}
          /\ watching[server[r]] /\ dirty[server[r]]
          /\ Steps(r) /\ failed'[r] = failed[r])
         => (pc'[r] = "watch" \/ status'[r] = "TOO_MANY_REQUESTS")]_vars

\* C5 (as claimed): a request one of whose store commands failed is never
\* handed to the downstream handler.
C5_FailClosed ==
    \A r \in Reqs : Admitted(r) /\ pc[r] # "done" => failed[r] = {}

\* C6: every bucket state held in the store has 0 <= tokens <= max_tokens.
C6_TokenRange ==
    store # <<>> => store[1].tokens \in 0..max_tokens

\* C6 witness: a request consumed the last token, the store holds 0.
C6_Witness ==
    /\ store # <<>> /\ store # initial /\ store[1].tokens = 0
    /\ \E r \in Reqs : Admitted(r)

\* C7: a request is answered 429 for lack of tokens only at the decision
\* of lines 132-137, that step leaves the store as it was, and no step
\* of a request other than the SET of an admitted one changes the store.
C7_DeniedNoWrite ==
    [][\A r \in Reqs :
         /\ (status[r] = "none" /\ status'[r] = "TOO_MANY_REQUESTS")
               => (pc[r] = "compute" /\ store' = store)
         /\ (Steps(r) /\ store' # store) => pc[r] = "set"]_vars

\* C7 witness: stored {tokens 0, last_refill now}, requested at now, denied,
\* and the store still holds that state.
C7_Witness ==
    /\ store = <<[tokens |-> 0, last_updated |-> clock]>>
    /\ store = initial
    /\ \E r \in Reqs : status[r] = "TOO_MANY_REQUESTS"

\* C8 (as claimed): a request that found the key absent starts from a full
\* bucket, is not denied, builds {tokens: max_tokens - 1, last_updated: now},
\* and its SET puts exactly that state in the store before the request is
\* forwarded.  Only a fresh bucket holds max_tokens tokens: every stored
\* state holds at most max_tokens - 1.
C8_FreshBurst ==
    [][\A r \in Reqs :
         /\ (pc[r] = "get" /\ Steps(r) /\ store = <<>>)
               => token_model_result'[r] = <<>>
         /\ (pc[r] = "match" /\ Steps(r) /\ token_model_result[r] = <<>>)
               => token_model'[r] = <<TokenPersistenceNew(clock)>>
         /\ (/\ pc[r] = "compute" /\ Steps(r)
              /\ token_model[r][1].tokens = max_tokens)
               => /\ pc'[r] = "set"
                  /\ updated_token_model'[r] =
                       <<[tokens |-> max_tokens - 1, last_updated |-> clock]>>
         /\ (pc[r] = "set" /\ Steps(r))
               => (pc'[r] = "unwatch" /\ store' = updated_token_model[r])
         /\ (pc[r] = "unwatch" /\ Steps(r)) => pc'[r] = "next"]_vars

\* available = min(max_tokens, t + floor_hours(now - r) * rate), for now >= r.
SpecAvailable(tm, t) ==
    LET hours == (t - tm.last_updated) \div TicksPerHour
        sum == tm.tokens + hours * refill_rate_per_hour
    IN  IF sum < max_tokens THEN sum ELSE max_tokens

\* C9: a request that read {tokens t, last_updated r} and decides at
\* now >= r is denied when available < 1 and otherwise builds
\* {available - 1, now}, available as in SpecAvailable; its SET writes that.
C9_RefillConsume ==
    [][\A r \in Reqs :
         /\ (/\ pc[r] = "compute" /\ Steps(r)
              /\ clock >= token_model[r][1].last_updated)
             => LET avail == SpecAvailable(token_model[r][1], clock)
                IN  IF avail >= 1
                      THEN /\ pc'[r] = "set"
                           /\ updated_token_model'[r] =
                                <<[tokens |-> avail - 1, last_updated |-> clock]>>
                      ELSE /\ status'[r] = "TOO_MANY_REQUESTS"
                           /\ store' = store
         /\ (pc[r] = "set" /\ Steps(r)) => store' = updated_token_model[r]]_vars

\* C9 witness: stored {0, now - 3h}; the request at now built {2, now}.
C9_Witness ==
    \E r \in Reqs :
        /\ pc[r] = "set"
        /\ store = <<[tokens |-> 0, last_updated |-> clock - 3 * TicksPerHour]>>
        /\ updated_token_model[r] = <<[tokens |-> 2, last_updated |-> clock]>>

\* C10 (as claimed): with now < last_updated the elapsed hours count as 0:
\* a bucket read with t >= 1 tokens is admitted and {t - 1, now} is built.
C10_ClockSkewClamp ==
    [][\A r \in Reqs :
         (/\ pc[r] = "compute" /\ Steps(r)
          /\ clock < token_model[r][1].last_updated
          /\ token_model[r][1].tokens >= 1)
         => /\ pc'[r] = "set"
            /\ updated_token_model'[r] =
                 <<[tokens |-> token_model[r][1].tokens - 1,
                    last_updated |-> clock]>>]_vars

\* C11: a request without a Bearer header is answered 401 in its first and
\* only step: straight from arrival to the response, with the connection
\* mutex, the watch state and the store as they were, and never through
\* the downstream handler.
C11_UnauthorizedShortCircuit ==
    [][\A r \in Reqs :
         (status[r] = "none" /\ status'[r] = "UNAUTHORIZED")
         => /\ pc[r] = "start" /\ pc'[r] = "done"
            /\ mutex' = mutex
            /\ watching' = watching /\ dirty' = dirty
            /\ store' = store]_vars

\* C11 witness: a request was answered 401 while another request holds the
\* connection of instance 1.
C11_Witness ==
    \E r \in Reqs, q \in Reqs :
        /\ status[r] = "UNAUTHORIZED"
        /\ mutex[1] = q /\ pc[q] = "get"

\* C12: the downstream handler is entered only from a transaction that
\* returned Ok, the response of a forwarded request is the handler's 200,
\* 200 comes from nowhere else, and a request answered 429 never was in
\* the handler.
C12_ForwardIffAdmitted ==
    [][\A r \in Reqs :
         /\ (pc'[r] = "next" /\ pc[r] # "next") => pc[r] = "unwatch"
         /\ (pc[r] = "next" /\ Steps(r)) => status'[r] = "OK"
         /\ (status[r] = "none" /\ status'[r] = "OK") => pc[r] = "next"
         /\ (status[r] = "none" /\ status'[r] = "TOO_MANY_REQUESTS")
               => pc[r] # "next"]_vars

\* C12 witness: one token stored; the first request took it and got 200,
\* the second one was answered 429.
C12_Witness ==
    /\ initial = <<[tokens |-> 1, last_updated |-> 0]>>
    /\ store # <<>> /\ store[1].tokens = 0
    /\ status[1] = "OK"
    /\ status[2] = "TOO_MANY_REQUESTS"

\* C13 (as claimed): a request whose read finds a value that cannot be
\* decoded goes on as if the key were absent: the read yields no state, the
\* request is not aborted, it is admitted and builds
\* {max_tokens - 1, now}.
C13_CorruptAsAbsent ==
    [][\A r \in Reqs :
         (pc[r] = "get" /\ Steps(r) /\ store = <<CorruptState>>)
         => /\ status'[r] # "PANIC"
            /\ pc'[r] = "match"
            /\ token_model_result'[r] = <<>>]_vars

\* C14 (as claimed): with a clock that never goes back, a write of the key
\* never replaces a last_updated by an earlier one.
C14_MonotonicAnchor ==
    [][(store # <<>> /\ store' # <<>>)
         => store'[1].last_updated >= store[1].last_updated]_vars

\* C15 (as claimed): a request that waits for the connection mutex of its
\* server instance waits behind a request of its own client only.
C15_IndependentClients ==
    \A r \in Reqs, q \in Reqs :
        (pc[r] = "lock" /\ mutex[server[r]] = q) => client[q] = client[r]

\* The request is inside redis::transaction: between its WATCH and the
\* return of the call.
InCycle(r) ==
    pc[r] \in {"watch", "get", "match", "compute", "set", "unwatch"}

\* C16: on every connection at most one request is inside its
\* watch/read/compute/commit cycle, and that request holds the mutex of the
\* connection, so no command of another request can go out in between.
C16_ConnectionCriticalSection ==
    \A r \in Reqs :
        InCycle(r) =>
            /\ mutex[server[r]] = r
            /\ \A q \in Reqs \ {r} : InCycle(q) => server[q] # server[r]

\* C16 witness: a request is about to send its SET while another request
\* of the same instance waits for the connection.
C16_Witness ==
    \E r \in Reqs, q \in Reqs :
        /\ pc[r] = "set" /\ pc[q] = "lock"
        /\ server[q] = server[r]

\* C17 (as claimed): from the read of the bucket to the commit of the new
\* state the connection of the request watches the key, and a write of the
\* key by another connection in that span flags the connection, so that
\* the EXEC of the commit is rejected.
C17_WatchCoversWrite ==
    [][\A r \in Reqs :
         pc[r] \in {"match", "compute", "set"} =>
            /\ watching[server[r]]
            /\ \A q \in Reqs :
                  (/\ pc[q] = "set" /\ Steps(q)
                   /\ server[q] # server[r] /\ client[q] = client[r]
                   /\ Value(client[r])' # Value(client[r]))
                  => dirty'[server[r]]]_vars

\* C18 (as claimed): while the downstream handler of a request runs, the
\* request no longer holds the connection mutex of its server instance.
C18_LockReleasedBeforeDownstream ==
    \A r \in Reqs : pc[r] = "next" => mutex[server[r]] # r

\* Position of a request on its way through the middleware.
Rank(p) ==
    CASE p = "start" -> 0
      [] p = "lock" -> 1
      [] p = "watch" -> 2
      [] p = "get" -> 3
      [] p = "match" -> 4
      [] p = "compute" -> 5
      [] p = "set" -> 6
      [] p = "unwatch" -> 7
      [] p = "next" -> 8
      [] p = "done" -> 9

\* The step a request that holds the connection takes when the store
\* answers.
Proceeds(r) ==
    \/ Watch(r) \/ ExecGet(r) \/ Match(r) \/ Deny(r) \/ Compute(r)
    \/ ExecSet(r) \/ Unwatch(r) \/ Downstream(r)

\* C19: a request sends WATCH once, right after it took the connection;
\* every step it takes brings it closer to its response, whatever the
\* other requests do to the key; and a request that holds the connection
\* can always take its next step.  It thus runs one cycle and answers
\* within eight steps of its own.
C19_BoundedCycles ==
    [][\A r \in Reqs :
         /\ Steps(r) => Rank(pc'[r]) > Rank(pc[r])
         /\ (pc'[r] = "watch" /\ Steps(r)) => pc[r] = "lock"
         /\ (InCycle(r) \/ pc[r] = "next") => ENABLED Proceeds(r)]_vars

\* C19 witness: both requests went through their cycle on the same key
\* within the same tick and have their response; the store shows the
\* update of one of them only.
C19_Witness ==
    /\ \A r \in Reqs : status[r] = "OK"
    /\ initial # <<>> /\ store # <<>>
    /\ store[1].tokens = initial[1].tokens - 1
    /\ clock = 0

\* No request has been admitted since the initial state: the last admitted
\* request of the client is the one that wrote the initial value.
NoneAdmittedYet ==
    \A q \in Reqs : pc[q] \notin {"set", "unwatch", "next"} /\ status[q] # "OK"

\* C20: with a store that answers every command, the step that denies a
\* request leaves the stored last_updated where it was; a
\* request that decides a full hour or more after the last_updated it read
\* is admitted; and, whatever was denied in between, a request that decides
\* a full hour or more after the last admitted request, and not before the
\* timestamp of the bucket it holds, is admitted.
C20_NoRefillStarvation ==
    [][\A r \in Reqs :
         /\ (status[r] = "none" /\ status'[r] = "TOO_MANY_REQUESTS")
               => store' = store
         /\ (/\ pc[r] = "compute" /\ Steps(r)
              /\ clock - token_model[r][1].last_updated >= TicksPerHour)
             => pc'[r] = "set"
         /\ (/\ pc[r] = "compute" /\ Steps(r)
              /\ NoneAdmittedYet
              /\ clock >= token_model[r][1].last_updated
              /\ clock >= TicksPerHour)
             => pc'[r] = "set"]_vars

\* C20 witness: empty bucket last refilled at 0; the first request was
\* denied, the second one, a full hour or more after 0, is admitted on the
\* refilled tokens.
C20_Witness ==
    /\ initial = <<[tokens |-> 0, last_updated |-> 0]>>
    /\ store = initial
    /\ status[1] = "TOO_MANY_REQUESTS"
    /\ pc[2] = "set"
    /\ clock >= TicksPerHour
    /\ updated_token_model[2] # <<>>
    /\ updated_token_model[2][1].last_updated = clock

====
